---- MODULE Spec2Model ----
(***************************************************************************)
(* State model of the page/block store of src/App.tsx (React component     *)
(* state `pages`, `selectedPageId`, `isGenerating`), its handlers, and the *)
(* asynchronous generation calls of src/services/geminiService.ts.         *)
(*                                                                         *)
(* Blocks and pages are records.  A block's optional `checked` field is    *)
(* modelled by its presence or absence in the record's domain.             *)
(* Timestamps are milliseconds as returned by Date.now(); identifiers are  *)
(* strings.  generateId() is modelled as returning a value it never        *)
(* returned before (the n-th call returns "g<n>").                         *)
(***************************************************************************)
EXTENDS Integers, Sequences, FiniteSets, TLC

\* ---------------------------------------------------------------- bounds
\* Number of handler runs that change the store or start a generation
\* request in one behaviour; once it is used up only the outstanding
\* request is still answered.
MaxOps == 2
\* Number of milliseconds Date.now() may advance in one behaviour.
MaxTicks == 1
\* Longest array the generation service answers with.
MaxGen == 2
\* Largest number of todo blocks of a page in SpecProgress.
MaxTodos == 40

VARIABLES
  pages,           \* useState<Page[]>            src/App.tsx:58
  selectedPageId,  \* useState<string | null>     src/App.tsx:60
  isGenerating,    \* useState(false)             src/App.tsx:62
  request,         \* the suspended handleAi* call: its kind and the
                   \* `selectedPage` value its closure captured
  idCount,         \* number of generateId() calls made so far
  clock,           \* last value returned by Date.now()
  apiKey,          \* whether process.env.API_KEY is set
  ops,             \* number of handler runs counted against MaxOps
  last             \* history: the last handler run, its arguments and the
                   \* value of `pages` before it

vars == <<pages, selectedPageId, isGenerating, request, idCount, clock,
          apiKey, ops, last>>

\* ------------------------------------------------------------- constants
NULL == "null"
\* an identifier that no page and no block ever carries
UnknownId == "zz"
NoRequest == [kind |-> "none"]

BlockTypes == {"text", "h1", "h2", "todo", "bullet"}
PageTypes == {"project", "work", "paper", "daily_log"}
\* order of the Ctrl+/ shortcut
TypeCycle == <<"text", "todo", "h1", "h2", "bullet">>

\* Date.now() at module load
T0 == 86400000

INITIAL_PAGES ==
  << [ id |-> "1", type |-> "project", title |-> "Website Redesign",
       emoji |-> "art", createdAt |-> T0, updatedAt |-> T0, progress |-> 35,
       blocks |-> <<
         [id |-> "b1", type |-> "h1", content |-> "Project Goals"],
         [id |-> "b2", type |-> "text", content |-> "We need to modernize the look and feel of the landing page."],
         [id |-> "b3", type |-> "h2", content |-> "Tasks"],
         [id |-> "b4", type |-> "todo", content |-> "Research competitors", checked |-> TRUE],
         [id |-> "b5", type |-> "todo", content |-> "Draft wireframes", checked |-> FALSE] >> ],
     [ id |-> "2", type |-> "daily_log", title |-> "March 15, 2024",
       emoji |-> "calendar", createdAt |-> T0 - 86400000, updatedAt |-> T0,
       progress |-> 100,
       blocks |-> <<
         [id |-> "l1", type |-> "h1", content |-> "Morning Reflection"],
         [id |-> "l2", type |-> "text", content |-> "Started the day with a clear mind. Focused on the API integration."],
         [id |-> "l3", type |-> "todo", content |-> "Gym session", checked |-> TRUE] >> ] >>

\* ------------------------------------------------------ generic helpers
\* { ...a, ...b }
Merge(a, b) ==
  [k \in (DOMAIN a) \cup (DOMAIN b) |-> IF k \in DOMAIN b THEN b[k] ELSE a[k]]

\* truthiness of b.checked
Checked(b) == "checked" \in DOMAIN b /\ b.checked = TRUE

\* Array.prototype.map over a sequence of blocks is written inline as
\* [i \in 1..Len(s) |-> ...]; filter is SelectSeq.

\* pages.find(p => p.id === id) !== undefined
HasPage(ps, id) == \E i \in 1..Len(ps) : ps[i].id = id

\* pages.find(p => p.id === id), for an id that is present
FindPage(ps, id) == ps[CHOOSE i \in 1..Len(ps) : ps[i].id = id /\ \A j \in 1..(i - 1) : ps[j].id # id]

\* blocks.findIndex(b => b.id === id): 0-based index, -1 when absent
FindIndex(blocks, id) ==
  IF \E i \in 1..Len(blocks) : blocks[i].id = id
  THEN (CHOOSE i \in 1..Len(blocks) :
          blocks[i].id = id /\ \A j \in 1..(i - 1) : blocks[j].id # id) - 1
  ELSE -1

\* arr.splice(start, 0, item) on a copy, for 0 <= start
Splice(arr, start, item) ==
  LET s == IF start > Len(arr) THEN Len(arr) ELSE start
  IN SubSeq(arr, 1, s) \o <<item>> \o SubSeq(arr, s + 1, Len(arr))

BlockIds(blocks) == {blocks[i].id : i \in 1..Len(blocks)}
PageIds(ps) == {ps[i].id : i \in 1..Len(ps)}

\* mutant: identifiers so short that they repeat
GenId_short(n) == "g" \o ToString(n % 2)

\* Math.random().toString(36).substr(2, 9): the n-th identifier generated
GenId(n) == "g" \o ToString(n)

\* values Date.now() may return next
NowSet == {t \in clock..(clock + 1) : t <= T0 + MaxTicks}


\* ------------------------------------- Math.round((completed / n) * 100)
\* The quotient and the product are IEEE 754 binary64 operations, each
\* rounded to nearest, ties to even.  A positive double is kept as its
\* 53-bit significand, written as five limbs <<top, l1, l2, l3, l4>> in base
\* 2^13 (value of the limbs times 2^-(52 + shift)).
LimbBase == 8192

RECURSIVE Pow2(_)
Pow2(n) == IF n = 0 THEN 1 ELSE 2 * Pow2(n - 1)

\* least s with c * 2^s >= t, for 0 < c <= t
RECURSIVE NormShift(_, _)
NormShift(c, t) == IF c >= t THEN 0 ELSE 1 + NormShift(2 * c, t)

\* add c to limb i and propagate the carry towards the top limb
RECURSIVE Carry(_, _, _)
Carry(l, i, c) ==
  IF i = 1 THEN [l EXCEPT ![1] = l[1] + c]
  ELSE LET v == l[i] + c
       IN Carry([l EXCEPT ![i] = v % LimbBase], i - 1, v \div LimbBase)

\* the double nearest to c / t, for integers 0 < c <= t
DoubleDiv(c, t) ==
  LET s  == NormShift(c, t)
      r0 == c * Pow2(s) - t
      l1 == (r0 * LimbBase) \div t
      r1 == (r0 * LimbBase) % t
      l2 == (r1 * LimbBase) \div t
      r2 == (r1 * LimbBase) % t
      l3 == (r2 * LimbBase) \div t
      r3 == (r2 * LimbBase) % t
      l4 == (r3 * LimbBase) \div t
      r4 == (r3 * LimbBase) % t
      trunc == <<1, l1, l2, l3, l4>>
      up == 2 * r4 > t \/ (2 * r4 = t /\ l4 % 2 = 1)
  IN [sig |-> IF up THEN Carry(trunc, 5, 1) ELSE trunc, shift |-> s]

\* multiply every limb by k, starting at limb i with carry c
RECURSIVE MulCarry(_, _, _, _)
MulCarry(l, k, i, c) ==
  IF i = 1 THEN [l EXCEPT ![1] = l[1] * k + c]
  ELSE LET v == l[i] * k + c
       IN MulCarry([l EXCEPT ![i] = v % LimbBase], k, i - 1, v \div LimbBase)

\* the double nearest to x * 100: the exact product has 59 or 60 bits, of
\* which the low 6 or 7 are rounded away
DoubleTimes100(x) ==
  LET p == MulCarry(x.sig, 100, 5, 0)
      d == IF p[1] < 128 THEN 6 ELSE 7
      low == p[5] % Pow2(d)
      kept == [p EXCEPT ![5] = p[5] - low]
      half == Pow2(d - 1)
      up == low > half \/ (low = half /\ (p[5] \div Pow2(d)) % 2 = 1)
  IN [sig |-> IF up THEN Carry(kept, 5, Pow2(d)) ELSE kept, shift |-> x.shift]

\* Math.round(x) = floor(x + 1/2), computed exactly
MathRound(x) ==
  LET y == (x.sig[1] * LimbBase + x.sig[2]) \div Pow2(12 + x.shift)
  IN (y + 1) \div 2

\* Math.round((completed / n) * 100) for 0 <= completed <= n, n > 0
PercentOf(completed, n) ==
  IF completed = 0 THEN 0
  ELSE MathRound(DoubleTimes100(DoubleDiv(completed, n)))

\* --------------------------------------------------------- updatePage
Todos(blocks) == SelectSeq(blocks, LAMBDA b : b.type = "todo")
Completed(blocks) == SelectSeq(Todos(blocks), Checked)

\* mutant: a page without todos counts as complete
RecalcProgress_full(updatedPage) ==
  IF Len(Todos(updatedPage.blocks)) > 0
  THEN [updatedPage EXCEPT !.progress =
          PercentOf(Len(Completed(updatedPage.blocks)), Len(Todos(updatedPage.blocks)))]
  ELSE [updatedPage EXCEPT !.progress = 100]

\* the body of `if (updates.blocks) { ... }`
RecalcProgress(updatedPage) ==
  IF Len(Todos(updatedPage.blocks)) > 0
  THEN [updatedPage EXCEPT !.progress =
          PercentOf(Len(Completed(updatedPage.blocks)), Len(Todos(updatedPage.blocks)))]
  ELSE updatedPage

\* the callback of prev.map for the page whose id matches
UpdatedPage(p, updates, now) ==
  LET updatedPage == Merge(Merge(p, updates), [updatedAt |-> now])
  IN IF "blocks" \in DOMAIN updates THEN RecalcProgress(updatedPage)
     ELSE updatedPage

\* mutant: an unknown id creates the page instead of being ignored
updatePage_upsert(ps, id, updates, now) ==
  IF HasPage(ps, id)
  THEN [i \in 1..Len(ps) |->
          IF ps[i].id # id THEN ps[i] ELSE UpdatedPage(ps[i], updates, now)]
  ELSE <<UpdatedPage([id |-> id, type |-> "project", title |-> "",
                      emoji |-> "doc", createdAt |-> now, updatedAt |-> now,
                      progress |-> 0, blocks |-> <<>>], updates, now)>> \o ps

\* setPages(prev => prev.map(...)) applied to prev = ps
updatePage(ps, id, updates, now) ==
  [i \in 1..Len(ps) |->
     IF ps[i].id # id THEN ps[i] ELSE UpdatedPage(ps[i], updates, now)]


\* ------------------------------------------------------ block handlers
\* page.blocks.map(b => b.id === blockId ? { ...b, ...updates } : b)
updateBlockBlocks(blocks, blockId, updates) ==
  [i \in 1..Len(blocks) |->
     IF blocks[i].id = blockId THEN Merge(blocks[i], updates) ELSE blocks[i]]

NewTextBlock(id) == [id |-> id, type |-> "text", content |-> ""]

\* mutant: the new block is spliced in before the block, not after it
addBlockBlocks_before(blocks, afterBlockId, newId) ==
  LET index == FindIndex(blocks, afterBlockId)
  IN Splice(blocks, IF index < 0 THEN 0 ELSE index, NewTextBlock(newId))

\* findIndex, copy, splice(index + 1, 0, newBlock)
addBlockBlocks(blocks, afterBlockId, newId) ==
  LET index == FindIndex(blocks, afterBlockId)
  IN Splice(blocks, index + 1, NewTextBlock(newId))

\* mutant: the guard lets the last block go
LastBlockGuard_off(page) == Len(page.blocks) < 1

\* if (page.blocks.length <= 1) return
LastBlockGuard(page) == Len(page.blocks) <= 1

\* page.blocks.filter(b => b.id !== blockId)
deleteBlockBlocks(blocks, blockId) ==
  SelectSeq(blocks, LAMBDA b : b.id # blockId)

\* The updates BlockEditor sends for a block: a content edit, the Ctrl+/
\* type cycle, and the checkbox of a todo block.
EditedContent == "x"

\* types[(types.indexOf(type) + 1) % types.length]; indexOf is -1 for a
\* type outside the list
NextType(type) ==
  LET indexOf == IF \E k \in 1..Len(TypeCycle) : TypeCycle[k] = type
                 THEN (CHOOSE k \in 1..Len(TypeCycle) : TypeCycle[k] = type) - 1
                 ELSE -1
  IN TypeCycle[((indexOf + 1) % Len(TypeCycle)) + 1]

EditorUpdates(b) ==
  {[content |-> EditedContent], [type |-> NextType(b.type)]}
    \cup (IF b.type = "todo" THEN {[checked |-> ~Checked(b)]} ELSE {})

\* arguments tried for a block id of a page: every block of the page with
\* the editor's updates, and one id the page does not hold
\* Block arguments tried on a page: its first block, its last block, and
\* one id the page does not hold.
BlockInputs(page) == {page.blocks[i] : i \in {1, Len(page.blocks)} \cap DOMAIN page.blocks}
BlockIdInputs(page) == {b.id : b \in BlockInputs(page)} \cup {UnknownId}

BlockUpdateInputs(page) ==
  UNION {{<<b.id, u>> : u \in EditorUpdates(b)} : b \in BlockInputs(page)}
    \cup {<<UnknownId, [content |-> EditedContent]>>}

\* Page arguments tried: the detail view calls every handler with
\* selectedPageId.
PageIdInputs == {selectedPageId} \ {NULL}
\* createPage(activeTab === 'all' ? 'project' : activeTab)
PageTypeInputs == {"project", "daily_log"}

\* the record kept in `last` for a handler run
Ran(op, pageId, blockId, gen) ==
  [op |-> op, pageId |-> pageId, blockId |-> blockId, pre |-> pages, gen |-> gen]

\* ------------------------------------------------------------- actions
Init ==
  /\ pages = INITIAL_PAGES
  /\ selectedPageId = NULL
  /\ isGenerating = FALSE
  /\ request = NoRequest
  /\ idCount = 0
  /\ clock = T0
  /\ apiKey \in BOOLEAN
  /\ ops = 0
  /\ last = [op |-> "init", pageId |-> NULL, blockId |-> NULL,
             pre |-> INITIAL_PAGES, gen |-> <<>>]

createPage(type) ==
  /\ ops < MaxOps
  /\ \E t1 \in NowSet :
       \E t2 \in {t \in t1..(t1 + 1) : t <= T0 + MaxTicks} :
         LET newPage ==
               [id |-> GenId(idCount + 1), type |-> type, title |-> "",
                emoji |-> IF type = "daily_log" THEN "calendar" ELSE "doc",
                createdAt |-> t1, updatedAt |-> t2, progress |-> 0,
                blocks |-> <<[id |-> GenId(idCount + 2), type |-> "h1",
                              content |-> ""]>>]
         IN /\ pages' = <<newPage>> \o pages
            /\ selectedPageId' = newPage.id
            /\ clock' = t2
            /\ last' = Ran("createPage", newPage.id, NULL, <<>>)
  /\ idCount' = idCount + 2
  /\ ops' = ops + 1
  /\ UNCHANGED <<isGenerating, request, apiKey>>

\* the title input: updatePage(selectedPageId, { title })
updatePageTitle(id, title) ==
  /\ ops < MaxOps
  /\ IF HasPage(pages, id)
     THEN \E now \in NowSet :
            /\ pages' = updatePage(pages, id, [title |-> title], now)
            /\ clock' = now
     ELSE UNCHANGED <<pages, clock>>
  /\ last' = Ran("updatePage", id, NULL, <<>>)
  /\ ops' = ops + 1
  /\ UNCHANGED <<selectedPageId, isGenerating, request, idCount, apiKey>>

\* mutant: the selection is left on the deleted page
deletePage_keepSelection(id) ==
  /\ ops < MaxOps
  /\ pages' = SelectSeq(pages, LAMBDA p : p.id # id)
  /\ last' = Ran("deletePage", id, NULL, <<>>)
  /\ ops' = ops + 1
  /\ UNCHANGED <<selectedPageId, isGenerating, request, idCount, clock, apiKey>>

deletePage(id) ==
  /\ ops < MaxOps
  /\ pages' = SelectSeq(pages, LAMBDA p : p.id # id)
  /\ selectedPageId' = IF selectedPageId = id THEN NULL ELSE selectedPageId
  /\ last' = Ran("deletePage", id, NULL, <<>>)
  /\ ops' = ops + 1
  /\ UNCHANGED <<isGenerating, request, idCount, clock, apiKey>>

updateBlock(pageId, blockId, updates) ==
  /\ ops < MaxOps
  /\ IF HasPage(pages, pageId)
     THEN LET page == FindPage(pages, pageId)
              newBlocks == updateBlockBlocks(page.blocks, blockId, updates)
          IN \E now \in NowSet :
               /\ pages' = updatePage(pages, pageId, [blocks |-> newBlocks], now)
               /\ clock' = now
     ELSE UNCHANGED <<pages, clock>>
  /\ last' = Ran("updateBlock", pageId, blockId, <<>>)
  /\ ops' = ops + 1
  /\ UNCHANGED <<selectedPageId, isGenerating, request, idCount, apiKey>>

addBlock(pageId, afterBlockId) ==
  /\ ops < MaxOps
  /\ IF HasPage(pages, pageId)
     THEN LET page == FindPage(pages, pageId)
              newBlocks == addBlockBlocks(page.blocks, afterBlockId,
                                          GenId(idCount + 1))
          IN /\ \E now \in NowSet :
                  /\ pages' = updatePage(pages, pageId, [blocks |-> newBlocks], now)
                  /\ clock' = now
             /\ idCount' = idCount + 1
     ELSE UNCHANGED <<pages, clock, idCount>>
  /\ last' = Ran("addBlock", pageId, afterBlockId, <<>>)
  /\ ops' = ops + 1
  /\ UNCHANGED <<selectedPageId, isGenerating, request, apiKey>>

deleteBlock(pageId, blockId) ==
  /\ ops < MaxOps
  /\ IF HasPage(pages, pageId) /\ ~LastBlockGuard(FindPage(pages, pageId))
     THEN LET page == FindPage(pages, pageId)
          IN \E now \in NowSet :
               /\ pages' = updatePage(pages, pageId,
                             [blocks |-> deleteBlockBlocks(page.blocks, blockId)], now)
               /\ clock' = now
     ELSE UNCHANGED <<pages, clock>>
  /\ last' = Ran("deleteBlock", pageId, blockId, <<>>)
  /\ ops' = ops + 1
  /\ UNCHANGED <<selectedPageId, isGenerating, request, idCount, apiKey>>

\* a page card of the list view, which is rendered while no page is
\* selected: setSelectedPageId(page.id)
selectPage(id) ==
  /\ ops < MaxOps
  /\ HasPage(pages, id)
  /\ selectedPageId = NULL
  /\ selectedPageId' = id
  /\ UNCHANGED <<pages, isGenerating, request, idCount, clock, apiKey, ops, last>>

\* a sidebar tab: setActiveTab(...); setSelectedPageId(null)
selectTab ==
  /\ ops < MaxOps
  /\ selectedPageId # NULL
  /\ selectedPageId' = NULL
  /\ UNCHANGED <<pages, isGenerating, request, idCount, clock, apiKey, ops, last>>


\* -------------------------------------------------- generation service
\* What JSON.parse(response.text) may hold: entries with a type inside or
\* outside the schema's enum, with or without a checked field.
RawEntries ==
  { [type |-> "todo", content |-> "g", checked |-> TRUE],
    [type |-> "todo", content |-> "g"],
    [type |-> "bogus", content |-> "g"] }

RawLists == UNION {[1..n -> RawEntries] : n \in 0..MaxGen}

\* the call either throws (network, quota, parse error) or yields an array
ServiceOutcomes == {[ok |-> FALSE]} \cup {[ok |-> TRUE, raw |-> r] : r \in RawLists}

\* generatePageBreakdown, its generateId() calls numbered from n0 + 1
generatePageBreakdown(hasKey, outcome, n0) ==
  IF ~hasKey
  THEN <<[id |-> GenId(n0 + 1), type |-> "text",
          content |-> "API Key missing. Please configure your environment."]>>
  ELSE IF ~outcome.ok
  THEN <<[id |-> GenId(n0 + 1), type |-> "text",
          content |-> "Failed to generate plan. Please try again."]>>
  ELSE [i \in 1..Len(outcome.raw) |->
          [id |-> GenId(n0 + i), type |-> outcome.raw[i].type,
           content |-> outcome.raw[i].content,
           checked |-> Checked(outcome.raw[i])]]

\* suggestNextSteps, its generateId() calls numbered from n0 + 1
suggestNextSteps(hasKey, outcome, n0) ==
  IF ~hasKey \/ ~outcome.ok
  THEN <<>>
  ELSE [i \in 1..Len(outcome.raw) |->
          [id |-> GenId(n0 + i), type |-> "todo",
           content |-> outcome.raw[i].content, checked |-> FALSE]]

\* [...selectedPage.blocks, ...generatedBlocks]
BreakdownAppended(generatedBlocks) == generatedBlocks

\* [...selectedPage.blocks, header, ...suggestions], empty when there are
\* no suggestions; the header's id is generated after the suggestions' ids
SuggestAppended(suggestions, n0) ==
  IF Len(suggestions) > 0
  THEN <<[id |-> GenId(n0 + Len(suggestions) + 1), type |-> "h2",
          content |-> "AI Suggestions"]>> \o suggestions
  ELSE <<>>

\* the part of handleAiBreakdown / handleAiSuggest after the await: `snap`
\* is the selectedPage value captured when the handler was called
AfterAwait(op, snap, appended, doUpdate) ==
  /\ IF doUpdate
     THEN \E now \in (IF HasPage(pages, snap.id) THEN NowSet ELSE {clock}) :
            /\ pages' = updatePage(pages, snap.id,
                                   [blocks |-> snap.blocks \o appended], now)
            /\ clock' = now
     ELSE UNCHANGED <<pages, clock>>
  /\ idCount' = idCount + Len(appended)
  /\ isGenerating' = FALSE
  /\ request' = NoRequest
  /\ last' = Ran(op, snap.id, NULL, appended)

\* AI buttons that stay enabled while isGenerating
CanStartAi_noFlag ==
  /\ ops < MaxOps
  /\ selectedPageId # NULL
  /\ HasPage(pages, selectedPageId)

\* the AI buttons are disabled while isGenerating
CanStartAi ==
  /\ ops < MaxOps
  /\ ~isGenerating
  /\ selectedPageId # NULL
  /\ HasPage(pages, selectedPageId)

\* handleAiBreakdown up to the await, with an API key: the service call is
\* in flight
handleAiBreakdownStart ==
  /\ CanStartAi
  /\ apiKey
  /\ isGenerating' = TRUE
  /\ request' = [kind |-> "breakdown", page |-> FindPage(pages, selectedPageId)]
  /\ ops' = ops + 1
  /\ UNCHANGED <<pages, selectedPageId, idCount, clock, apiKey, last>>

handleAiBreakdownResolve ==
  /\ request.kind = "breakdown"
  /\ \E outcome \in ServiceOutcomes :
       AfterAwait("handleAiBreakdown", request.page,
                  BreakdownAppended(generatePageBreakdown(TRUE, outcome, idCount)),
                  TRUE)
  /\ UNCHANGED <<selectedPageId, apiKey, ops>>

\* handleAiBreakdown without an API key: generatePageBreakdown returns
\* without suspending, so the handler's continuation runs before any other
\* event handler
handleAiBreakdownNoKey ==
  /\ CanStartAi
  /\ ~apiKey
  /\ AfterAwait("handleAiBreakdown", FindPage(pages, selectedPageId),
                BreakdownAppended(generatePageBreakdown(FALSE, [ok |-> FALSE], idCount)),
                TRUE)
  /\ ops' = ops + 1
  /\ UNCHANGED <<selectedPageId, apiKey>>

handleAiSuggestStart ==
  /\ CanStartAi
  /\ apiKey
  /\ isGenerating' = TRUE
  /\ request' = [kind |-> "suggest", page |-> FindPage(pages, selectedPageId)]
  /\ ops' = ops + 1
  /\ UNCHANGED <<pages, selectedPageId, idCount, clock, apiKey, last>>

handleAiSuggestResolve ==
  /\ request.kind = "suggest"
  /\ \E outcome \in ServiceOutcomes :
       LET suggestions == suggestNextSteps(TRUE, outcome, idCount)
       IN AfterAwait("handleAiSuggest", request.page,
                     SuggestAppended(suggestions, idCount),
                     Len(suggestions) > 0)
  /\ UNCHANGED <<selectedPageId, apiKey, ops>>

handleAiSuggestNoKey ==
  /\ CanStartAi
  /\ ~apiKey
  /\ LET suggestions == suggestNextSteps(FALSE, [ok |-> FALSE], idCount)
     IN AfterAwait("handleAiSuggest", FindPage(pages, selectedPageId),
                   SuggestAppended(suggestions, idCount),
                   Len(suggestions) > 0)
  /\ ops' = ops + 1
  /\ UNCHANGED <<selectedPageId, apiKey>>


Next ==
  \/ \E type \in PageTypeInputs : createPage(type)
  \/ \E id \in PageIdInputs : updatePageTitle(id, "t")
  \/ \E id \in PageIdInputs : deletePage(id)
  \/ \E pageId \in PageIdInputs :
       \E in \in BlockUpdateInputs(FindPage(pages, pageId)) :
         updateBlock(pageId, in[1], in[2])
  \/ \E pageId \in PageIdInputs :
       \E blockId \in BlockIdInputs(FindPage(pages, pageId)) :
         addBlock(pageId, blockId)
  \/ \E pageId \in PageIdInputs :
       \E blockId \in BlockIdInputs(FindPage(pages, pageId)) :
         deleteBlock(pageId, blockId)
  \/ \E id \in PageIds(pages) : selectPage(id)
  \/ selectTab
  \/ handleAiBreakdownStart
  \/ handleAiBreakdownResolve
  \/ handleAiBreakdownNoKey
  \/ handleAiSuggestStart
  \/ handleAiSuggestResolve
  \/ handleAiSuggestNoKey

Spec == Init /\ [][Next]_vars

\* the step in which the awaited service call settles and the handler's
\* continuation clears the request: of the steps of Next these are the
\* handleAiBreakdownResolve and handleAiSuggestResolve steps, one of which
\* is enabled whenever a request is pending
ServiceAnswers == request.kind # "none" /\ request' = NoRequest

\* generatePageBreakdown and suggestNextSteps resolve on every path (result
\* or caught error), and the event loop then runs the continuation
SpecLive == Spec /\ WF_request(ServiceAnswers)


\* ------------------------------------- progress computation in isolation
\* A page holding n todo blocks of which the first c are checked, as the
\* handlers above can build it; the progress calculation of updatePage is
\* then run on it by a content edit of its first block.
TodoPage(n, c) ==
  [id |-> "p", type |-> "project", title |-> "", emoji |-> "doc",
   createdAt |-> T0, updatedAt |-> T0, progress |-> 0,
   blocks |-> [i \in 1..n |->
                 [id |-> GenId(i), type |-> "todo", content |-> "",
                  checked |-> (i <= c)]]]

InitProgress ==
  /\ \E n \in 1..MaxTodos : \E c \in 0..n : pages = <<TodoPage(n, c)>>
  /\ selectedPageId = "p"
  /\ isGenerating = FALSE
  /\ request = NoRequest
  /\ idCount = Len(pages[1].blocks)
  /\ clock = T0
  /\ apiKey = TRUE
  /\ ops = 0
  /\ last = [op |-> "init", pageId |-> NULL, blockId |-> NULL,
             pre |-> pages, gen |-> <<>>]

NextProgress ==
  updateBlock(selectedPageId, pages[1].blocks[1].id, [content |-> EditedContent])

SpecProgress == InitProgress /\ [][NextProgress]_vars

\* =============================================================== claims
BlockMutations ==
  {"updateBlock", "addBlock", "deleteBlock", "handleAiBreakdown", "handleAiSuggest"}
AiOps == {"handleAiBreakdown", "handleAiSuggest"}

\* the page the last handler run was aimed at, before and after the run
TargetBefore == FindPage(last.pre, last.pageId)
TargetAfter == FindPage(pages, last.pageId)
TargetExisted == HasPage(last.pre, last.pageId)
TargetExists == HasPage(pages, last.pageId)

\* round-half-up of 100 * c / n in exact integer arithmetic
RoundHalfUp(c, n) == (200 * c + n) \div (2 * n)

\* C1: every page always holds at least one block, and deleteBlock on a
\* page with exactly one block leaves that page as it was.
C1_PagesKeepOneBlock ==
  /\ \A i \in 1..Len(pages) : Len(pages[i].blocks) >= 1
  /\ (last.op = "deleteBlock" /\ TargetExisted /\ Len(TargetBefore.blocks) = 1)
       => (TargetExists /\ TargetAfter = TargetBefore)

\* deleteBlock was asked to remove the only block of a page
C1_Witness ==
  /\ last.op = "deleteBlock"
  /\ TargetExisted
  /\ Len(TargetBefore.blocks) = 1
  /\ last.blockId = TargetBefore.blocks[1].id

C3_ResponseAppendsToCurrentBlocks ==
  (last.op \in AiOps /\ TargetExisted)
    => (TargetExists /\ TargetAfter.blocks = TargetBefore.blocks \o last.gen)

\* C4: addBlock with an afterBlockId the page does not hold leaves the
\* page's block sequence unchanged.
C4_AddBlockUnknownAfterIdKeepsBlocks ==
  (last.op = "addBlock" /\ TargetExisted
     /\ last.blockId \notin BlockIds(TargetBefore.blocks))
    => (TargetExists /\ TargetAfter.blocks = TargetBefore.blocks)

\* C5: every block of every page has a kind of the closed set.
C5_BlockKindsClosed ==
  \A i \in 1..Len(pages) :
    \A j \in 1..Len(pages[i].blocks) : pages[i].blocks[j].type \in BlockTypes

\* C6: a response for a page that was deleted in the meantime changes
\* nothing in the page collection.
C6_LateResponseIsNoop ==
  (last.op \in AiOps /\ ~TargetExisted) => pages = last.pre

\* a response carrying generated blocks arrived for a deleted page
C6_Witness ==
  /\ last.op \in AiOps
  /\ ~TargetExisted
  /\ Len(last.gen) > 0

\* C7: after a block-list mutation that leaves the page with at least one
\* todo block, progress is round-half-up(100 * checked todos / todos).
C7_ProgressIsRoundHalfUp ==
  (last.op \in BlockMutations /\ TargetExisted /\ TargetExists
     /\ TargetAfter.blocks # TargetBefore.blocks
     /\ Len(Todos(TargetAfter.blocks)) > 0)
    => TargetAfter.progress =
         RoundHalfUp(Len(Completed(TargetAfter.blocks)), Len(Todos(TargetAfter.blocks)))

C9_UnknownBlockIsNoop ==
  (last.op \in {"updateBlock", "deleteBlock"} /\ TargetExisted
     /\ last.blockId \notin BlockIds(TargetBefore.blocks))
    => (TargetExists /\ TargetAfter = TargetBefore)

\* C10: addBlock after the block at position i puts one new empty text
\* block at position i + 1 and keeps all other blocks, in order.
C10_AddBlockInsertsAfter ==
  (last.op = "addBlock" /\ TargetExisted
     /\ last.blockId \in BlockIds(TargetBefore.blocks))
    => LET before == TargetBefore.blocks
           after == TargetAfter.blocks
           i == FindIndex(before, last.blockId) + 1
       IN /\ TargetExists
          /\ Len(after) = Len(before) + 1
          /\ after[i + 1].type = "text"
          /\ after[i + 1].content = ""
          /\ after[i + 1].id \notin BlockIds(before)
          /\ \A j \in 1..i : after[j] = before[j]
          /\ \A j \in (i + 1)..Len(before) : after[j + 1] = before[j]

\* addBlock was called after a block that is not the last one of its page
C10_Witness ==
  /\ last.op = "addBlock"
  /\ TargetExisted
  /\ last.blockId \in BlockIds(TargetBefore.blocks)
  /\ FindIndex(TargetBefore.blocks, last.blockId) + 1 < Len(TargetBefore.blocks)


\* a step in which the handler named op ran (every run of createPage and
\* of deletePage starts from a different `pages` than the run before it)
RanStep(op) == last' # last /\ last'.op = op

\* C11: createPage puts a new page at the front with a fresh id, progress
\* 0, updatedAt equal to createdAt and a single empty h1 block, keeps the
\* other pages as they were and in order, and selects the new page.
C11_CreatePageResult ==
  [][RanStep("createPage") =>
       LET new == pages'[1]
       IN /\ Len(pages') = Len(pages) + 1
          /\ new.id \notin PageIds(pages)
          /\ new.progress = 0
          /\ new.updatedAt = new.createdAt
          /\ Len(new.blocks) = 1
          /\ new.blocks[1].type = "h1"
          /\ new.blocks[1].content = ""
          /\ SubSeq(pages', 2, Len(pages')) = pages
          /\ selectedPageId' = new.id]_vars


\* C12: deletePage(id) removes the page with that id and keeps every other
\* page as it was; a selection on the deleted page becomes null; hence
\* selectedPageId is always null or the id of a page of the collection.
C12_DeletePageAndSelection ==
  /\ [](selectedPageId = NULL \/ HasPage(pages, selectedPageId))
  /\ [][RanStep("deletePage") =>
          LET id == last'.pageId
          IN /\ ~HasPage(pages', id)
             /\ \A i \in 1..Len(pages) :
                  pages[i].id # id =>
                    (HasPage(pages', pages[i].id)
                       /\ FindPage(pages', pages[i].id) = pages[i])
             /\ PageIds(pages') = PageIds(pages) \ {id}
             /\ Len(pages') = Len(pages) - 1
             /\ selectedPageId = id => selectedPageId' = NULL]_vars

\* the selected page was deleted and other pages remain
C12_Witness ==
  /\ last.op = "deletePage"
  /\ TargetExisted
  /\ ~TargetExists
  /\ selectedPageId = NULL
  /\ Len(pages) >= 2


\* the blocks handleAiSuggest puts behind a page's blocks for n >= 1
\* suggestions: a h2 heading, then n unchecked todo blocks
IsSuggestionTail(tail) ==
  /\ Len(tail) >= 2
  /\ tail[1].type = "h2"
  /\ \A j \in 2..Len(tail) :
       /\ tail[j].type = "todo"
       /\ "checked" \in DOMAIN tail[j]
       /\ tail[j].checked = FALSE

\* C13: a suggestion request that resolves empty does not change the target
\* page (no heading is appended); one that resolves with n >= 1 suggestions
\* appends exactly n + 1 blocks to the page: a h2 heading and then the n
\* suggestions as unchecked todo blocks.
C13_SuggestAppendsHeadingAndTodos ==
  (last.op = "handleAiSuggest" /\ TargetExisted)
    => /\ TargetExists
       /\ IF last.gen = <<>>
          THEN TargetAfter = TargetBefore
          ELSE /\ IsSuggestionTail(last.gen)
               /\ TargetAfter.blocks = TargetBefore.blocks \o last.gen

\* C13 without the position of the appended blocks relative to the blocks
\* the page held just before the response: they are the page's last blocks
C13_SuggestTailOnly ==
  (last.op = "handleAiSuggest" /\ TargetExisted)
    => /\ TargetExists
       /\ IF last.gen = <<>>
          THEN TargetAfter = TargetBefore
          ELSE /\ IsSuggestionTail(last.gen)
               /\ Len(TargetAfter.blocks) > Len(last.gen)
               /\ SubSeq(TargetAfter.blocks,
                         Len(TargetAfter.blocks) - Len(last.gen) + 1,
                         Len(TargetAfter.blocks)) = last.gen


\* a step that starts a breakdown or suggestion request
RequestStarts == request' # request /\ request'.kind # "none"

\* C14: isGenerating is true whenever a breakdown or suggestion request is
\* outstanding; a request starts only while the flag is false and no other
\* request is outstanding; and every outstanding request is followed by a
\* state in which the flag is false again, whatever the service returns and
\* whether or not the target page still exists.
C14_GeneratingFlag ==
  /\ [](request.kind # "none" => isGenerating)
  /\ [][RequestStarts => (~isGenerating /\ request.kind = "none")]_vars
  /\ (request.kind # "none") ~> (~isGenerating /\ request.kind = "none")

\* a request was answered after its target page had been deleted, and the
\* flag is false again
C14_Witness ==
  /\ apiKey
  /\ last.op \in AiOps
  /\ ~TargetExisted
  /\ request = NoRequest
  /\ ~isGenerating


\* the steps that clear a pending request are the two Resolve steps
ServiceAnswersIsResolve ==
  [][ServiceAnswers <=> (handleAiBreakdownResolve \/ handleAiSuggestResolve)]_vars

====
